---- MODULE Spec2Model ----
(***************************************************************************)
(* Model of the fixed-tick character controller of src/src/main.rs:        *)
(* check_is_on_ground -> movement_controls -> update_linear_velocity ->    *)
(* apply_impulses, chained in FixedPreUpdate, followed by the physics step *)
(* of the engine and the input poll of the next frame.                     *)
(*                                                                         *)
(* Numbers are fixed point.  Lengths, speeds, directions and angles are in *)
(* thousandths (1.0 is 1000, so the 0.001 of is_near_zero is 1); durations *)
(* are in nanoseconds, the resolution of std::time::Duration.              *)
(***************************************************************************)
EXTENDS Integers, Sequences, FiniteSets

\* ------------------------------------------------------------- constants
\* 1.0 in fixed point
Milli == 1000

\* const MOVEMENT_SPEED: f32 = 10.  (whole units; multiplies a Milli vector)
MOVEMENT_SPEED == 10
\* const ROTATE_SPEED: f32 = 0.05 (radians)
ROTATE_SPEED == 50
\* const JUMP_SPEED: f32 = 75.0
JUMP_SPEED == 75000
\* Mass(10.) of the capsule
MASS == 10
\* const GROUND_DISTANCE: f32 = 1.01
GROUND_DISTANCE == 1010
\* Duration::from_secs_f32(JUMP_COOLDOWN), JUMP_COOLDOWN = 0.1f32
JUMP_COOLDOWN == 100000001
\* Duration::from_secs_f32(time.delta_secs()) of Time<Fixed>::from_hz(60.0)
FIXED_DELTA == 16666668

\* ---------------------------------------------------------------- bounds
\* longest hit list the ray caster reports
MaxHits == 2
\* the yaw stays within MaxYaw rotation steps of the initial orientation
MaxYaw == 1
\* most keys held down at once
MaxPressed == 2
\* most entities carrying a PlayerController at once
MaxBodies == 2

Keys == {"KeyW", "KeyS", "KeyQ", "KeyE", "KeyA", "KeyD", "Space"}

\* distances a hit can report: inside, exactly at and beyond the threshold
Distances == {GROUND_DISTANCE - 1, GROUND_DISTANCE, GROUND_DISTANCE + 1}

HitLists == UNION {[1..n -> Distances] : n \in 0..MaxHits}

Chords == {k \in SUBSET Keys : Cardinality(k) <= MaxPressed}

VARIABLES
    pc,                \* the system of the schedule that runs next
    bodies,            \* number of entities with a PlayerController
    keyboard,          \* ButtonInput<KeyCode>: the keys currently pressed
    ray_hits,          \* RayHits of the ray caster, in storage order
    transform,         \* Transform of the body: its yaw
    player_controller, \* PlayerController of the body
    linear_velocity,   \* LinearVelocity of the body
    external_impulse,  \* ExternalImpulse of the body
    upward_movement,   \* movement_controls' local of its last run
    clock              \* history: the ticks the jump_timer has been through

vars == <<pc, bodies, keyboard, ray_hits, transform, player_controller,
          linear_velocity, external_impulse, upward_movement, clock>>

\* ------------------------------------------------------------ arithmetic
Abs(a) == IF a < 0 THEN -a ELSE a

\* division that rounds toward zero
Quot(a, b) == IF a < 0 THEN -((-a) \div b) ELSE a \div b

RECURSIVE SqrtBetween(_, _, _)
SqrtBetween(v, lo, hi) ==
    IF lo >= hi THEN lo
    ELSE LET mid == (lo + hi + 1) \div 2
         IN  IF mid * mid <= v THEN SqrtBetween(v, mid, hi)
             ELSE SqrtBetween(v, lo, mid - 1)

\* floor of the square root (of a number below 46000 squared)
Sqrt(v) == SqrtBetween(v, 0, 46 * Milli)

Vec3(x, y, z) == [x |-> x, y |-> y, z |-> z]
ZERO == Vec3(0, 0, 0)
Scale(v, k) == Vec3(Quot(v.x * k, Milli), Quot(v.y * k, Milli), Quot(v.z * k, Milli))
Add(v, w) == Vec3(v.x + w.x, v.y + w.y, v.z + w.z)
Neg(v) == Vec3(-v.x, -v.y, -v.z)
Length(v) == Sqrt(v.x * v.x + v.y * v.y + v.z * v.z)

\* Vec3::normalize
Normalize(v) ==
    LET len == Length(v)
    IN  Vec3(Quot(v.x * Milli, len), Quot(v.y * Milli, len), Quot(v.z * Milli, len))

\* sine and cosine of an angle in milliradians, by their series
Sin(a) == a - Quot(a * a * a, 6 * Milli * Milli)
Cos(a) == Milli - Quot(a * a, 2 * Milli)

\* Transform::forward: the local -Z axis of a body turned by yaw about Y
Forward(yaw) == Vec3(-Sin(yaw), 0, -Cos(yaw))
\* Transform::left: the local -X axis
Left(yaw) == Vec3(-Cos(yaw), 0, Sin(yaw))

\* ------------------------------------------------------------ bevy Timer
\* as TimerNew, with the duration already elapsed
TimerNewElapsed == [elapsed |-> JUMP_COOLDOWN, finished |-> TRUE]

\* Timer::new(duration, TimerMode::Once)
TimerNew == [elapsed |-> 0, finished |-> FALSE]

\* Timer::remaining
Remaining(t) == JUMP_COOLDOWN - t.elapsed

\* as TimerTick, had the timer been made with TimerMode::Repeating
TimerTickRepeating(t, delta) ==
    [elapsed |-> (t.elapsed + delta) % JUMP_COOLDOWN,
     finished |-> t.elapsed + delta >= JUMP_COOLDOWN]

\* Timer::tick in TimerMode::Once: a finished timer stays as it is, the
\* elapsed time is clamped to the duration
TimerTick(t, delta) ==
    IF t.finished THEN t
    ELSE IF t.elapsed + delta >= JUMP_COOLDOWN
         THEN [elapsed |-> JUMP_COOLDOWN, finished |-> TRUE]
         ELSE [elapsed |-> t.elapsed + delta, finished |-> FALSE]

\* as TimerReset, leaving the timer marked finished
TimerResetFinished(t) == [elapsed |-> 0, finished |-> TRUE]

\* Timer::reset
TimerReset(t) == [elapsed |-> 0, finished |-> FALSE]

\* ------------------------------------------------------------- RayHits
RECURSIVE Insert(_, _)
Insert(d, s) ==
    IF s = <<>> THEN <<d>>
    ELSE IF d <= Head(s) THEN <<d>> \o s
         ELSE <<Head(s)>> \o Insert(d, Tail(s))

\* RayHits::iter_sorted: the hits in ascending order of distance
RECURSIVE IterSorted(_)
IterSorted(s) == IF s = <<>> THEN <<>> ELSE Insert(Head(s), IterSorted(Tail(s)))

\* -------------------------------------------------------------- schedule
\* as Then, had the tuple of systems listed update_linear_velocity before
\* movement_controls
ThenMisordered(system) ==
    CASE system = "check_is_on_ground" -> "update_linear_velocity"
      [] system = "update_linear_velocity" -> "movement_controls"
      [] system = "movement_controls" -> "apply_impulses"
      [] system = "apply_impulses" -> "physics"

\* the system that .chain() runs after a system of the FixedPreUpdate tuple;
\* the physics step follows the last one
Then(system) ==
    CASE system = "check_is_on_ground" -> "movement_controls"
      [] system = "movement_controls" -> "update_linear_velocity"
      [] system = "update_linear_velocity" -> "apply_impulses"
      [] system = "apply_impulses" -> "physics"

\* --------------------------------------------------------------- queries
\* as GetSingle, taking the first of several bodies
GetSingleLoose == bodies >= 1

\* Query::get_single_mut succeeds
GetSingle == bodies = 1
\* Query::iter_mut yields the body
Iterates == bodies >= 1

\* ticks that make up the cooldown: the least k with k deltas >= the duration
JumpGap == (JUMP_COOLDOWN + FIXED_DELTA - 1) \div FIXED_DELTA

\* the history of a timer just made: no tick of it yet
ClockNew == [ticks |-> 0, since_jump |-> 0]

\* the history after one more run of movement_controls on the body: ticks
\* counts the runs since the timer was made, since_jump those since the last
\* accepted jump (or since the timer was made); both stop counting at JumpGap
ClockAfter(c, jump) ==
    [ticks |-> IF c.ticks < JumpGap THEN c.ticks + 1 ELSE c.ticks,
     since_jump |-> IF jump THEN 0
                    ELSE IF c.since_jump < JumpGap THEN c.since_jump + 1
                         ELSE c.since_jump]

\* ----------------------------------------------------------------- setup
Init ==
    /\ pc = "input"
    /\ bodies = 1
    /\ keyboard = {}
    /\ ray_hits = <<>>
    /\ transform = [yaw |-> 0]
    /\ player_controller = [velocity |-> ZERO, jump_timer |-> TimerNew,
                            is_on_ground |-> FALSE]
    /\ linear_velocity = ZERO
    /\ external_impulse = ZERO
    /\ upward_movement = 0
    /\ clock = ClockNew

\* ------------------------------------------------- engine and environment
\* the yaw after the A and D branches of movement_controls
RotateY(yaw, kb) ==
    LET a == IF "KeyA" \in kb THEN yaw + ROTATE_SPEED ELSE yaw
    IN  IF "KeyD" \in kb THEN a - ROTATE_SPEED ELSE a

\* PreUpdate of a frame: the input layer refreshes the pressed keys
keyboard_input ==
    /\ pc = "input"
    /\ \E kb \in Chords :
          /\ Abs(RotateY(transform.yaw, kb)) <= MaxYaw * ROTATE_SPEED
          /\ keyboard' = kb
    /\ pc' = "check_is_on_ground"
    /\ UNCHANGED <<bodies, ray_hits, transform, player_controller,
                   linear_velocity, external_impulse, upward_movement, clock>>

\* velocities the solver can leave the body with: it moves freely (an impulse
\* is divided by the mass, otherwise the body falls) or a contact stops it
Solved(lin, impulse) ==
    {[lin EXCEPT !.y = IF impulse.y # 0 THEN Quot(impulse.y, MASS) ELSE -Milli],
     ZERO}

\* ExternalImpulse::default() is not persistent: the step clears it
ClearedImpulse(impulse) == ZERO

\* the physics step of the engine (PhysicsPlugins, after FixedPreUpdate):
\* consumes and clears the impulse, integrates the velocity, casts the ray
physics_step ==
    /\ pc = "physics"
    /\ linear_velocity' \in Solved(linear_velocity, external_impulse)
    /\ external_impulse' = ClearedImpulse(external_impulse)
    /\ ray_hits' \in HitLists
    /\ pc' = "input"
    /\ UNCHANGED <<bodies, keyboard, transform, player_controller, upward_movement,
                   clock>>

\* ---------------------------------------------------- check_is_on_ground
\* as HitGrounded, with < for <=
HitGroundedStrict(distance) == distance < GROUND_DISTANCE

\* hit.distance <= GROUND_DISTANCE
HitGrounded(distance) == distance <= GROUND_DISTANCE

\* as Checked, without the reset that precedes the loops
CheckedNoReset(controller, hits) ==
    LET sorted == IterSorted(hits)
    IN  IF sorted = <<>> THEN controller
        ELSE [controller EXCEPT !.is_on_ground = HitGrounded(Head(sorted))]

\* the PlayerController after the body of check_is_on_ground: is_on_ground
\* is reset, then the first hit in sorted order decides and the loops return
Checked(controller, hits) ==
    LET reset == [controller EXCEPT !.is_on_ground = FALSE]
        sorted == IterSorted(hits)
    IN  IF sorted = <<>> THEN reset
        ELSE [reset EXCEPT !.is_on_ground = HitGrounded(Head(sorted))]

check_is_on_ground ==
    /\ pc = "check_is_on_ground"
    /\ IF GetSingle
       THEN player_controller' = Checked(player_controller, ray_hits)
       ELSE UNCHANGED player_controller
    /\ pc' = Then("check_is_on_ground")
    /\ UNCHANGED <<bodies, keyboard, ray_hits, transform, linear_velocity,
                   external_impulse, upward_movement, clock>>

\* ----------------------------------------------------- movement_controls
\* forward_movement after the W and S branches
ForwardMovement(kb) ==
    IF "KeyS" \in kb THEN -Milli ELSE IF "KeyW" \in kb THEN Milli ELSE 0

\* side_movement after the Q and E branches
SideMovement(kb) ==
    IF "KeyE" \in kb THEN -Milli ELSE IF "KeyQ" \in kb THEN Milli ELSE 0

\* as JumpAccepted, without the is_on_ground conjunct
JumpAcceptedAirborne(kb, timer, on_ground) ==
    /\ "Space" \in kb
    /\ ~(Remaining(timer) > 0)

\* as JumpAccepted, without the test of the cooldown
JumpAcceptedNoCooldown(kb, timer, on_ground) ==
    /\ "Space" \in kb
    /\ on_ground

\* the condition of the Space branch, on the timer already ticked
JumpAccepted(kb, timer, on_ground) ==
    /\ "Space" \in kb
    /\ ~(Remaining(timer) > 0)
    /\ on_ground

\* as JumpTimerAfter, with the reset outside the inner if
JumpTimerAfterAnyPress(ticked, kb, jump) ==
    IF "Space" \in kb THEN TimerReset(ticked) ELSE ticked

\* jump_timer after the Space branch: reset by an accepted jump only
JumpTimerAfter(ticked, kb, jump) == IF jump THEN TimerReset(ticked) ELSE ticked

is_near_zero(value) == value > -1 /\ value < 1

\* as HVel, without the two negations
HVelAlongBasis(yaw, forward_movement, side_movement) ==
    LET h == Add(Scale(Forward(yaw), forward_movement),
                 Scale(Left(yaw), side_movement))
    IN  IF ~is_near_zero(forward_movement) \/ ~is_near_zero(side_movement)
        THEN Scale(Normalize(h), MOVEMENT_SPEED * Milli)
        ELSE h

\* h_vel: the planar direction, normalized to MOVEMENT_SPEED when an axis is set
HVel(yaw, forward_movement, side_movement) ==
    LET h == Add(Scale(Neg(Forward(yaw)), forward_movement),
                 Scale(Neg(Left(yaw)), side_movement))
    IN  IF ~is_near_zero(forward_movement) \/ ~is_near_zero(side_movement)
        THEN Scale(Normalize(h), MOVEMENT_SPEED * Milli)
        ELSE h

\* as DesiredVelocity, without the factor upward_movement
DesiredVelocityUngated(h_vel, upward) == [h_vel EXCEPT !.y = JUMP_SPEED]

\* velocity.value as the last two assignments leave it
DesiredVelocity(h_vel, upward) ==
    [h_vel EXCEPT !.y = Quot(upward * JUMP_SPEED, Milli)]

movement_controls ==
    /\ pc = "movement_controls"
    /\ IF GetSingle
       THEN LET ticked == TimerTick(player_controller.jump_timer, FIXED_DELTA)
                yaw == RotateY(transform.yaw, keyboard)
                jump == JumpAccepted(keyboard, ticked, player_controller.is_on_ground)
                upward == IF jump THEN Milli ELSE 0
                h_vel == HVel(yaw, ForwardMovement(keyboard), SideMovement(keyboard))
            IN  /\ transform' = [transform EXCEPT !.yaw = yaw]
                /\ upward_movement' = upward
                /\ clock' = ClockAfter(clock, jump)
                /\ player_controller' =
                       [player_controller EXCEPT
                           !.jump_timer = JumpTimerAfter(ticked, keyboard, jump),
                           !.velocity = DesiredVelocity(h_vel, upward)]
       ELSE /\ upward_movement' = 0
            /\ UNCHANGED <<transform, player_controller, clock>>
    /\ pc' = Then("movement_controls")
    /\ UNCHANGED <<bodies, keyboard, ray_hits, linear_velocity, external_impulse>>

\* ------------------------------------------------ update_linear_velocity
\* as SyncedVelocity, assigning the whole vector
SyncedVelocityWhole(lin, vel) == vel

\* the body's LinearVelocity after the loop body
SyncedVelocity(lin, vel) == [lin EXCEPT !.x = vel.x, !.z = vel.z]

update_linear_velocity ==
    /\ pc = "update_linear_velocity"
    /\ IF Iterates
       THEN linear_velocity' =
                SyncedVelocity(linear_velocity, player_controller.velocity)
       ELSE UNCHANGED linear_velocity
    /\ pc' = Then("update_linear_velocity")
    /\ UNCHANGED <<bodies, keyboard, ray_hits, transform, player_controller,
                   external_impulse, upward_movement, clock>>

\* -------------------------------------------------------- apply_impulses
\* as ApplyImpulse, with the whole desired velocity for its y
ApplyImpulseWhole(impulse, velocity) == Add(impulse, velocity)

\* ExternalImpulse::apply_impulse(Vec3::Y * vel), vel the y of the desired
\* velocity: adds to the accumulator
ApplyImpulse(impulse, velocity) == Add(impulse, Vec3(0, velocity.y, 0))

apply_impulses ==
    /\ pc = "apply_impulses"
    /\ IF Iterates
       THEN external_impulse' =
                ApplyImpulse(external_impulse, player_controller.velocity)
       ELSE UNCHANGED external_impulse
    /\ pc' = Then("apply_impulses")
    /\ UNCHANGED <<bodies, keyboard, ray_hits, transform, player_controller,
                   linear_velocity, upward_movement, clock>>

\* --------------------------------------------------------- specification
Next ==
    \/ keyboard_input
    \/ check_is_on_ground
    \/ movement_controls
    \/ update_linear_velocity
    \/ apply_impulses
    \/ physics_step

Spec == Init /\ [][Next]_vars

\* ------------------------------------------- a missing or duplicated body
\* The systems query the world for the controlled body and handle finding
\* none or several.  setup spawns exactly one and nothing in main.rs spawns
\* or despawns another, so Spec keeps bodies at 1; SpecBodies lets the
\* world change between ticks, the case those failure paths are for.

\* the components setup gives the capsule
Spawned ==
    /\ transform' = [yaw |-> 0]
    /\ player_controller' = [velocity |-> ZERO, jump_timer |-> TimerNew,
                             is_on_ground |-> FALSE]
    /\ linear_velocity' = ZERO
    /\ external_impulse' = ZERO
    /\ clock' = ClockNew

\* another entity with a PlayerController appears; the first one of an
\* empty world is the body the model follows
spawn_body ==
    /\ pc = "input"
    /\ bodies < MaxBodies
    /\ bodies' = bodies + 1
    /\ IF bodies = 0
       THEN Spawned
       ELSE UNCHANGED <<transform, player_controller, linear_velocity,
                        external_impulse, clock>>
    /\ UNCHANGED <<pc, keyboard, ray_hits, upward_movement>>

\* an entity with a PlayerController disappears; the body the model follows
\* is the last to go
despawn_body ==
    /\ pc = "input"
    /\ bodies > 0
    /\ bodies' = bodies - 1
    /\ UNCHANGED <<pc, keyboard, ray_hits, transform, player_controller,
                   linear_velocity, external_impulse, upward_movement, clock>>

NextBodies == Next \/ spawn_body \/ despawn_body

SpecBodies == Init /\ [][NextBodies]_vars

\* ================================================================ claims
\* the steps of the pipeline, as actions
MovementStep == pc = "movement_controls" /\ pc' = "update_linear_velocity"
UpdateStep == pc = "update_linear_velocity" /\ pc' = "apply_impulses"
ApplyStep == pc = "apply_impulses" /\ pc' = "physics"

\* the pipeline has run check_is_on_ground in this tick
Sensed == pc \in {"movement_controls", "update_linear_velocity",
                  "apply_impulses", "physics"}
\* the pipeline has run movement_controls in this tick
Mapped == pc \in {"update_linear_velocity", "apply_impulses", "physics"}

\* the cooldown's remaining time once this tick's delta has gone by
RemainingAfterDelta ==
    LET r == Remaining(player_controller.jump_timer)
    IN  IF r > FIXED_DELTA THEN r - FIXED_DELTA ELSE 0

\* the jump condition of the specification, on the state movement_controls finds
Trigger ==
    /\ "Space" \in keyboard
    /\ player_controller.is_on_ground
    /\ RemainingAfterDelta = 0

\* C1: in every tick in which movement_controls runs, a jump is triggered
\* (upward_movement set, the desired vertical velocity at the jump speed) if
\* and only if Space is pressed, is_on_ground is true and the cooldown's
\* remaining time is 0 after this tick's advance; every triggered jump leaves
\* the cooldown at its full duration.
C1_JumpTrigger ==
    [][(MovementStep /\ GetSingle) =>
         /\ (upward_movement' = Milli) <=> Trigger
         /\ (player_controller'.velocity.y = JUMP_SPEED) <=> Trigger
         /\ Trigger => Remaining(player_controller'.jump_timer) = JUMP_COOLDOWN]_vars

\* a jump has just been triggered and the cooldown is full again
C1_Witness ==
    /\ pc = "update_linear_velocity"
    /\ "Space" \in keyboard
    /\ player_controller.is_on_ground
    /\ upward_movement = Milli
    /\ player_controller.velocity.y = JUMP_SPEED
    /\ Remaining(player_controller.jump_timer) = JUMP_COOLDOWN

\* C2: the impulse handed to the physics step is the jump speed along +Y in
\* exactly the ticks whose movement_controls triggered a jump and zero in
\* every other tick, and the accumulator is empty outside that hand-over: one
\* impulse per accepted jump, none re-applied on later ticks.
C2_OneImpulsePerJump ==
    IF pc = "physics"
    THEN external_impulse =
             Vec3(0, IF upward_movement = Milli THEN JUMP_SPEED ELSE 0, 0)
    ELSE external_impulse = ZERO

\* the tick after a jump (the solver still carries the jump's velocity) hands
\* over a zero impulse
C2_Witness ==
    /\ pc = "physics"
    /\ external_impulse = ZERO
    /\ upward_movement = 0
    /\ "Space" \in keyboard
    /\ linear_velocity.y = Quot(JUMP_SPEED, MASS)

\* the movement keys
MoveKeys == {"KeyW", "KeyS", "KeyQ", "KeyE"}

\* C3: with only an opposing pair of movement keys pressed (W and S, or Q
\* and E), the desired horizontal velocity is the zero vector, whatever the
\* yaw.
C3_OpposingCancel ==
    (/\ Mapped
     /\ GetSingle
     /\ keyboard \cap MoveKeys \in {{"KeyW", "KeyS"}, {"KeyQ", "KeyE"}})
    => (player_controller.velocity.x = 0 /\ player_controller.velocity.z = 0)

\* the state of the body the pipeline may write
BodyState == <<player_controller, transform, linear_velocity, external_impulse>>

\* C4: in a tick in which the number of controlled bodies is not exactly
\* one, none of the four stages changes is_on_ground, the cooldown, the
\* desired velocity, the orientation, the linear velocity or the impulse.
C4_SkipWithoutSingleBody ==
    [][(bodies # 1 /\ pc \in {"check_is_on_ground", "movement_controls",
                              "update_linear_velocity", "apply_impulses"})
         => UNCHANGED BodyState]_vars

\* C5: the cooldown's remaining time is never negative, and except in the
\* step that resets it for an accepted jump it never grows and stays 0 once
\* it is 0.
C5_CooldownMonotone ==
    [][LET r == Remaining(player_controller.jump_timer)
           rr == Remaining(player_controller'.jump_timer)
       IN  /\ rr >= 0
           /\ ~(MovementStep /\ upward_movement' = Milli) =>
                  (rr <= r /\ (r = 0 => rr = 0))]_vars

\* movement_controls has run on an elapsed cooldown with Space held and the
\* body off the ground: the cooldown is still at 0
C5_Witness ==
    /\ pc = "update_linear_velocity"
    /\ "Space" \in keyboard
    /\ ~player_controller.is_on_ground
    /\ player_controller.jump_timer.finished
    /\ Remaining(player_controller.jump_timer) = 0

\* the smallest distance of a non-empty hit list
Nearest(hits) ==
    CHOOSE d \in {hits[i] : i \in 1..Len(hits)} :
        \A i \in 1..Len(hits) : d <= hits[i]

\* C6: after check_is_on_ground has run on a non-empty hit list,
\* is_on_ground tells whether the nearest hit is within GROUND_DISTANCE
\* (inclusive), whatever the other hits and the previous value.
C6_NearestHitDecides ==
    (Sensed /\ GetSingle /\ ray_hits # <<>>)
    => (player_controller.is_on_ground <=> Nearest(ray_hits) <= GROUND_DISTANCE)

\* grounded by a hit exactly at the threshold that is stored after a farther one
C6_Witness ==
    /\ pc = "movement_controls"
    /\ ray_hits = <<GROUND_DISTANCE + 1, GROUND_DISTANCE>>
    /\ player_controller.is_on_ground

\* C7: in a tick whose hit list is empty is_on_ground is false after
\* check_is_on_ground, no jump is triggered and no impulse is submitted.
C7_NoHitsNoJump ==
    (GetSingle /\ ray_hits = <<>>) =>
        /\ Sensed => ~player_controller.is_on_ground
        /\ Mapped => (upward_movement = 0 /\ player_controller.velocity.y = 0)
        /\ pc = "physics" => external_impulse.y = 0

\* no hits, Space held, the cooldown elapsed: the tick ends without a jump
C7_Witness ==
    /\ pc = "physics"
    /\ ray_hits = <<>>
    /\ "Space" \in keyboard
    /\ Remaining(player_controller.jump_timer) = 0
    /\ ~player_controller.is_on_ground
    /\ external_impulse = ZERO

\* C8: movement_controls leaves the desired vertical velocity at exactly the
\* jump speed when it triggers a jump and at exactly 0 otherwise, whatever
\* the value was before.
C8_VerticalExact ==
    [][(MovementStep /\ GetSingle) =>
         player_controller'.velocity.y = IF Trigger THEN JUMP_SPEED ELSE 0]_vars

\* the tick after a jump: the desired vertical velocity is back at 0 while
\* the body still rises from the impulse
C8_Witness ==
    /\ pc = "update_linear_velocity"
    /\ player_controller.velocity.y = 0
    /\ linear_velocity.y = Quot(JUMP_SPEED, MASS)
    /\ Remaining(player_controller.jump_timer) = JUMP_COOLDOWN - FIXED_DELTA

\* C9: update_linear_velocity sets the x and z of the linear velocity to
\* those of the desired velocity and leaves its y as it was.
C9_HorizontalOverwrite ==
    [][(UpdateStep /\ Iterates) =>
         /\ linear_velocity'.x = player_controller.velocity.x
         /\ linear_velocity'.z = player_controller.velocity.z
         /\ linear_velocity'.y = linear_velocity.y]_vars

\* the synchronizer has run on a falling body whose desired velocity jumps
C9_Witness ==
    /\ pc = "apply_impulses"
    /\ linear_velocity.y = -Milli
    /\ player_controller.velocity.y = JUMP_SPEED
    /\ linear_velocity.x = player_controller.velocity.x
    /\ linear_velocity.z = player_controller.velocity.z
    /\ linear_velocity.z # 0

\* C10: the cooldown advances by the delta in every tick; it is reset only
\* by an accepted jump; a tick with Space pressed but the cooldown running or
\* the body off the ground leaves max(0, remaining - delta) and submits no
\* impulse.
C10_CooldownUnaffectedByKeys ==
    [][/\ (MovementStep /\ GetSingle) =>
            /\ Remaining(player_controller'.jump_timer) =
                   IF Trigger THEN JUMP_COOLDOWN ELSE RemainingAfterDelta
            /\ ("Space" \in keyboard /\ ~Trigger) => upward_movement' = 0
       /\ (ApplyStep /\ GetSingle /\ upward_movement = 0) =>
            external_impulse' = external_impulse]_vars

\* Space held on the ground while the cooldown runs: no jump, the countdown
\* went on
C10_Witness ==
    /\ pc = "physics"
    /\ "Space" \in keyboard
    /\ player_controller.is_on_ground
    /\ upward_movement = 0
    /\ external_impulse = ZERO
    /\ Remaining(player_controller.jump_timer) = JUMP_COOLDOWN - 3 * FIXED_DELTA

\* the order of a tick: the four systems of the chain between the input
\* poll and the physics step
TickOrder ==
    {<<"input", "check_is_on_ground">>,
     <<"check_is_on_ground", "movement_controls">>,
     <<"movement_controls", "update_linear_velocity">>,
     <<"update_linear_velocity", "apply_impulses">>,
     <<"apply_impulses", "physics">>,
     <<"physics", "input">>}

\* C11: the four stages run once per tick in the order check_is_on_ground,
\* movement_controls, update_linear_velocity, apply_impulses; a jump is only
\* accepted on a hit list of this tick that grounds the body, and the linear
\* velocity and the impulse handed to the physics step are those of the
\* desired velocity computed from this tick's keys.
C11_ChainOrder ==
    [][/\ pc' # pc => <<pc, pc'>> \in TickOrder
       /\ MovementStep =>
            (upward_movement' = Milli =>
                (ray_hits # <<>> /\ Nearest(ray_hits) <= GROUND_DISTANCE))
       /\ (ApplyStep /\ GetSingle) =>
            LET h_vel == HVel(transform.yaw, ForwardMovement(keyboard),
                              SideMovement(keyboard))
            IN  /\ linear_velocity'.x = h_vel.x
                /\ linear_velocity'.z = h_vel.z
                /\ external_impulse'.y = Quot(upward_movement * JUMP_SPEED, Milli)]_vars

\* a tick ends with a jump accepted on this tick's hits while the body moves
\* by this tick's keys
C11_Witness ==
    /\ pc = "physics"
    /\ keyboard = {"Space", "KeyQ"}
    /\ ray_hits = <<GROUND_DISTANCE>>
    /\ upward_movement = Milli
    /\ external_impulse.y = JUMP_SPEED
    /\ linear_velocity.x = MOVEMENT_SPEED * Milli

\* FixedPreUpdate runs at every fixed tick and the frames go on: the schedule
\* always gets to its next stage
Scheduled ==
    pc' = CASE pc = "input" -> "check_is_on_ground"
            [] pc = "physics" -> "input"
            [] OTHER -> Then(pc)

SpecLive == Spec /\ WF_pc(Scheduled)

\* the tick of jump_timer in this run of movement_controls leaves no time
\* remaining: the cooldown is over before the Space branch is looked at
CooldownIdle == pc = "movement_controls" /\ RemainingAfterDelta = 0

\* C12: after every accepted jump, as the ticks go on, a tick comes whose
\* timer tick leaves remaining == 0, whatever the hits and the keys of the
\* ticks in between; holding Space does not put it off.
C12_CooldownExpires == (Mapped /\ upward_movement = Milli) ~> CooldownIdle

\* Space was held all the way from one accepted jump to the tick that ends
\* its cooldown, and that tick accepts the next jump
C12_Witness ==
    /\ pc = "update_linear_velocity"
    /\ "Space" \in keyboard
    /\ upward_movement = Milli
    /\ clock.ticks = JumpGap
    /\ clock.since_jump = 0
    /\ Remaining(player_controller.jump_timer) = JUMP_COOLDOWN

\* the run of check_is_on_ground in a tick
CheckStep == pc = "check_is_on_ground" /\ pc' = "movement_controls"

\* C13: in a tick where check_is_on_ground does not find exactly one
\* controlled body it writes nothing: is_on_ground, like the rest of the
\* controller, is as the previous tick left it, not reset to false (nothing
\* between the end of that tick and the check writes it either).
C13_SensorNoWrite ==
    [][/\ (CheckStep /\ bodies # 1) => player_controller' = player_controller
       /\ (pc \in {"physics", "input"} /\ bodies > 0)
            => player_controller'.is_on_ground = player_controller.is_on_ground]_vars

\* two controlled bodies and no hit: the sensor has run and is_on_ground is
\* still true from an earlier tick
C13_Witness ==
    /\ pc = "movement_controls"
    /\ bodies = 2
    /\ ray_hits = <<>>
    /\ player_controller.is_on_ground

Dot(v, w) == v.x * w.x + v.y * w.y + v.z * w.z

\* C14 as stated: with only the forward key pressed the desired velocity
\* points along the body's forward basis, not opposite to it, with y = 0.
C14_ForwardAlongFacing ==
    (Mapped /\ keyboard = {"KeyW"}) =>
        /\ Dot(player_controller.velocity, Forward(transform.yaw)) > 0
        /\ player_controller.velocity.y = 0

\* C14, amended: with only the forward key pressed the desired velocity has
\* y = 0 and points opposite to the body's forward basis; in the orientation
\* setup gives the body (yaw 0, forward basis -Z) it is exactly the movement
\* speed along +Z with x = 0.
C14_ForwardOpposesBasis ==
    (Mapped /\ keyboard = {"KeyW"}) =>
        /\ Dot(player_controller.velocity, Forward(transform.yaw)) < 0
        /\ player_controller.velocity.y = 0
        /\ transform.yaw = 0 =>
             player_controller.velocity = Vec3(0, 0, MOVEMENT_SPEED * Milli)

\* W alone in the orientation of setup: the desired velocity is along +Z
C14_Witness ==
    /\ pc = "update_linear_velocity"
    /\ keyboard = {"KeyW"}
    /\ transform.yaw = 0
    /\ Forward(transform.yaw) = Vec3(0, 0, -Milli)
    /\ player_controller.velocity = Vec3(0, 0, MOVEMENT_SPEED * Milli)

\* the resolution of the fixed point on a speed: a thousandth in each of the
\* x and z of the normalized direction, scaled by MOVEMENT_SPEED
SpeedResolution == 2 * MOVEMENT_SPEED

\* the net contribution of a pair of opposing keys: +1 and -1 summed
Net(kb, plus, minus) ==
    (IF plus \in kb THEN Milli ELSE 0) - (IF minus \in kb THEN Milli ELSE 0)

\* C15: for every chord and every yaw the desired horizontal velocity is the
\* zero vector when the net forward and net strafe contributions are both
\* zero, and otherwise has the magnitude MOVEMENT_SPEED (to the resolution of
\* the fixed point), a diagonal input like a single-axis one.
C15_SpeedZeroOrFull ==
    Mapped =>
        LET h == [player_controller.velocity EXCEPT !.y = 0]
        IN  IF Net(keyboard, "KeyW", "KeyS") = 0 /\ Net(keyboard, "KeyQ", "KeyE") = 0
            THEN h = ZERO
            ELSE Abs(Length(h) - MOVEMENT_SPEED * Milli) <= SpeedResolution

\* C16: an accepted jump comes at least JumpGap runs of movement_controls
\* after the jump before it (or after the timer was made): the deltas ticked
\* into the timer since then add up to JUMP_COOLDOWN or more, so the
\* JumpGap - 1 ticks after an accepted jump accept none, whatever the keys
\* and the hits.
C16_JumpsApart ==
    [][(MovementStep /\ upward_movement' = Milli) =>
          /\ clock.since_jump + 1 >= JumpGap
          /\ (clock.since_jump + 1) * FIXED_DELTA >= JUMP_COOLDOWN]_vars

\* the last tick of the window after a jump: Space held on the ground, the
\* jump refused, time still remaining
C16_Witness ==
    /\ pc = "update_linear_velocity"
    /\ "Space" \in keyboard
    /\ player_controller.is_on_ground
    /\ upward_movement = 0
    /\ clock.ticks = JumpGap
    /\ clock.since_jump = JumpGap - 1
    /\ Remaining(player_controller.jump_timer) > 0

\* C17: the body starts with no time elapsed on the cooldown and
\* is_on_ground false, and until JumpGap runs of movement_controls have
\* ticked the timer no jump is accepted: the timer holds exactly the deltas
\* of the runs so far and is not finished.
C17_StartsCoolingDown ==
    /\ (clock.ticks = 0 /\ pc \in {"input", "check_is_on_ground"})
          => ~player_controller.is_on_ground
    /\ clock.ticks < JumpGap =>
          /\ upward_movement = 0
          /\ player_controller.jump_timer =
                 [elapsed |-> clock.ticks * FIXED_DELTA, finished |-> FALSE]
          /\ Remaining(player_controller.jump_timer) > 0

\* Space held on the ground in the run before the one that ends the first
\* cooldown: no jump yet
C17_Witness ==
    /\ pc = "update_linear_velocity"
    /\ "Space" \in keyboard
    /\ player_controller.is_on_ground
    /\ upward_movement = 0
    /\ clock.ticks = JumpGap - 1
    /\ external_impulse = ZERO

====
